---- MODULE Spec2Model ----
(***************************************************************************)
(* ETF overlap analyzer: the overlap engine (backend/app/overlap.py) and   *)
(* the holdings cache and retrieval pipeline (backend/app/sec_parser.py).  *)
(*                                                                         *)
(* Weights are binary floats in the code.  The model takes them from the   *)
(* multiples of 1/8 percent, on which float addition, min and comparison   *)
(* are exact, and writes a weight w/8 percent as the integer w.  The       *)
(* result of round(x, 2) is written in hundredths of a percent.            *)
(***************************************************************************)
EXTENDS Integers, Sequences, FiniteSets, TLC

VARIABLES
    holdings1,      \* first argument of calculate_overlap (an ETFHoldings)
    holdings2,      \* second argument of calculate_overlap
    result,         \* calculate_overlap(holdings1, holdings2), or NoResult
    swapped,        \* calculate_overlap(holdings2, holdings1), or NoResult
    cache,          \* CACHE_DIR: ticker -> the file <TICKER>_holdings.json
    now,            \* datetime.now(), in hours
    req,            \* request -> the position and locals of its get_etf_holdings call
    saved,          \* ticker -> the snapshots that were, or are being, written whole
    written,        \* ticker -> the snapshot last passed to _save_to_cache
    lastLoad,       \* the last _load_from_cache: its ticker, its time, its result
    clock,          \* the event loop's time, in milliseconds
    fetcher,        \* task -> the position of its _fetch_with_rate_limit calls
    sentAt,         \* the times at which session.get was issued, in order
    api,            \* the HTTP request being handled by main.py, and its response
    document,       \* xml_content given to _parse_nport_xml
    extracted,      \* what _parse_nport_xml returned, or raised
    feed,           \* what EDGAR serves: the recent filings and their indexes
    located         \* what _get_latest_nport_url returned

overlapVars == <<holdings1, holdings2, result, swapped>>
cacheVars == <<cache, now, req, saved>>
roundTripVars == <<written, lastLoad>>
fetchVars == <<clock, fetcher, sentAt>>
apiVars == <<api>>
extractVars == <<document, extracted>>
locatorVars == <<feed, located>>
vars == <<holdings1, holdings2, result, swapped, cache, now, req, saved,
          written, lastLoad, clock, fetcher, sentAt, api, document, extracted,
          feed, located>>

\* the parts of the program a specification does not exercise stay as they are
OverlapIdle ==
    /\ holdings1 = << >> /\ holdings2 = << >> /\ result = << >> /\ swapped = << >>
CacheIdle == cache = << >> /\ now = 0 /\ req = << >> /\ saved = << >>
RoundTripIdle == written = << >> /\ lastLoad = << >>
FetchIdle == clock = 0 /\ fetcher = << >> /\ sentAt = << >>
ApiIdle == api = << >>
ExtractIdle == document = << >> /\ extracted = << >>
LocatorIdle == feed = << >> /\ located = << >>

(***************************************************************************)
(* Bounds of the model                                                     *)
(***************************************************************************)
\* longest holdings list drawn from Universe
MaxLen == 2
\* longest list of pairwise distinct stocks (test_top_overlapping_limited_to_10)
MaxLong == 12
\* the last hour the clock reaches
MaxNow == 24
\* the last millisecond the event loop's clock reaches
MaxClock == 300
\* the _fetch_with_rate_limit calls one retrieval makes
MaxFetches == 2
\* the invstOrSec elements of a document given to the extraction
MaxRecords == 3
\* the entries of the recent-filings list
MaxFilings == 2

(***************************************************************************)
(* Data model: sec_parser.py Holding, ETFHoldings                          *)
(***************************************************************************)
\* Python None in an Optional[str] field
None == "<None>"

\* Python None in an Optional[float] field
NoValue == -1

\* a test for None in place of the truthiness test
TruthyUnlessNone(s) == s # None

\* Python truthiness of an Optional[str]: None and "" are falsy
Truthy(s) == s # None /\ s # ""

Holding(name, cusip, percentage) ==
    [name |-> name, cusip |-> cusip, percentage |-> percentage, value |-> NoValue]

ETFHoldings(ticker, name, holdings) ==
    [ticker |-> ticker, name |-> name, holdings |-> holdings, as_of_date |-> None]

\* str.upper() on the names of the model
Upper(s) ==
    CASE s \in {"Apple Inc", "APPLE INC", "apple inc"} -> "APPLE INC"
      [] s \in {"Tesla Inc", "TESLA INC"} -> "TESLA INC"
      [] s \in {"Microsoft Corp"} -> "MICROSOFT CORP"
      [] s \in {"spy"} -> "SPY"
      [] s \in {"qqq"} -> "QQQ"
      [] OTHER -> s

\* The holdings the short input lists are built from.
Universe ==
    { Holding("Apple Inc", "037833100", 8),
      Holding("Apple Inc", None, 3),
      Holding("APPLE INC", None, 1),
      Holding("apple inc", "", 3),
      Holding("Tesla Inc", "88160R101", 3),
      Holding("Tesla Inc", "", 1),
      Holding("Microsoft Corp", "037833100", 1),
      Holding("Microsoft Corp", "594918104", 8) }

\* n holdings with pairwise distinct names and codes, weight 1.0 each
Stocks(n) ==
    [i \in 1..n |-> Holding("STOCK " \o ToString(i), "CUSIP" \o ToString(i), 8)]

SeqsUpTo(S, n) == UNION {[1..k -> S] : k \in 0..n}

HoldingLists == SeqsUpTo(Universe, MaxLen) \cup {Stocks(n) : n \in 0..MaxLong}

Snapshots == {ETFHoldings("ETF", "Test ETF", hs) : hs \in HoldingLists}

NoResult == [etf1_ticker |-> None]

(***************************************************************************)
(* overlap.py: calculate_overlap                                           *)
(***************************************************************************)
\* dict[key] = value
DictPut(d, key, value) ==
    [k \in DOMAIN d \cup {key} |-> IF k = key THEN value ELSE d[k]]

EmptyDict == [k \in {} |-> None]

\* lines 49-55: the two lookups over holdings1 (a later holding overwrites)
RECURSIVE BuildLookup(_, _, _)
BuildLookup(hs, i, idx) ==
    IF i > Len(hs) THEN idx
    ELSE LET h == hs[i]
             by_cusip == IF Truthy(h.cusip)
                         THEN DictPut(idx.etf1_by_cusip, h.cusip, h)
                         ELSE idx.etf1_by_cusip
             by_name == DictPut(idx.etf1_by_name, Upper(h.name), h)
         IN  BuildLookup(hs, i + 1,
                         [etf1_by_cusip |-> by_cusip, etf1_by_name |-> by_name])

\* the name lookup tried before the code lookup
FindMatchNameFirst(idx, h2) ==
    IF Upper(h2.name) \in DOMAIN idx.etf1_by_name
    THEN <<idx.etf1_by_name[Upper(h2.name)]>>
    ELSE IF Truthy(h2.cusip) /\ h2.cusip \in DOMAIN idx.etf1_by_cusip
         THEN <<idx.etf1_by_cusip[h2.cusip]>>
         ELSE << >>

\* lines 62-66: <<h1>> when h2 matches, << >> when h1 stays None
FindMatch(idx, h2) ==
    IF Truthy(h2.cusip) /\ h2.cusip \in DOMAIN idx.etf1_by_cusip
    THEN <<idx.etf1_by_cusip[h2.cusip]>>
    ELSE IF Upper(h2.name) \in DOMAIN idx.etf1_by_name
         THEN <<idx.etf1_by_name[Upper(h2.name)]>>
         ELSE << >>

\* the weight in the first fund taken as the contribution
OverlapContributionOfFirst(h1, h2) == h1.percentage

\* line 70: min(h1.percentage, h2.percentage)
OverlapContribution(h1, h2) ==
    IF h2.percentage < h1.percentage THEN h2.percentage ELSE h1.percentage

\* lines 73-79
OverlappingHolding(h1, h2) ==
    [name |-> h1.name, cusip |-> h1.cusip,
     weight_etf1 |-> h1.percentage, weight_etf2 |-> h2.percentage,
     overlap_contribution |-> OverlapContribution(h1, h2)]

\* lines 60-79: the loop over holdings2
RECURSIVE MatchLoop(_, _, _, _)
MatchLoop(hs2, i, idx, acc) ==
    IF i > Len(hs2) THEN acc
    ELSE LET m == FindMatch(idx, hs2[i])
         IN  IF m = << >> THEN MatchLoop(hs2, i + 1, idx, acc)
             ELSE LET o == OverlappingHolding(m[1], hs2[i])
                  IN  MatchLoop(hs2, i + 1, idx,
                        [overlapping |-> Append(acc.overlapping, o),
                         total_overlap |-> acc.total_overlap + o.overlap_contribution])

\* insertion of x before the entries with an equal contribution
RECURSIVE InsertSortedBeforeEquals(_, _)
InsertSortedBeforeEquals(s, x) ==
    IF s = << >> THEN <<x>>
    ELSE IF Head(s).overlap_contribution > x.overlap_contribution
         THEN <<Head(s)>> \o InsertSortedBeforeEquals(Tail(s), x)
         ELSE <<x>> \o s

\* insertion of x into a list sorted by descending contribution, after its equals
RECURSIVE InsertSorted(_, _)
InsertSorted(s, x) ==
    IF s = << >> THEN <<x>>
    ELSE IF Head(s).overlap_contribution >= x.overlap_contribution
         THEN <<Head(s)>> \o InsertSorted(Tail(s), x)
         ELSE <<x>> \o s

\* line 82: list.sort(key=contribution, reverse=True), which is stable
RECURSIVE SortDescending(_)
SortDescending(s) ==
    IF s = << >> THEN << >>
    ELSE InsertSorted(SortDescending(SubSeq(s, 1, Len(s) - 1)), s[Len(s)])

\* line 89: round(total_overlap, 2), half to even; eighths in, hundredths out
Round2(x) ==
    LET n == 25 * x
        q == n \div 2
    IN  IF n % 2 = 0 THEN q ELSE IF q % 2 = 0 THEN q ELSE q + 1

\* line 93: overlapping[:10]
TopOverlapping(overlapping) ==
    SubSeq(overlapping, 1, IF Len(overlapping) < 10 THEN Len(overlapping) ELSE 10)

\* the count taken from the truncated list
CommonHoldingsCountOfTop(overlapping) == Len(TopOverlapping(overlapping))

\* line 90
CommonHoldingsCount(overlapping) == Len(overlapping)

\* holdings1 iterated against the lookups of holdings2
CollectMatchesReversed(h1s, h2s) ==
    MatchLoop(h1s.holdings, 1,
              BuildLookup(h2s.holdings, 1,
                          [etf1_by_cusip |-> EmptyDict, etf1_by_name |-> EmptyDict]),
              [overlapping |-> << >>, total_overlap |-> 0])

\* lines 48-79: holdings2 iterated against the lookups of holdings1
CollectMatches(h1s, h2s) ==
    MatchLoop(h2s.holdings, 1,
              BuildLookup(h1s.holdings, 1,
                          [etf1_by_cusip |-> EmptyDict, etf1_by_name |-> EmptyDict]),
              [overlapping |-> << >>, total_overlap |-> 0])

\* lines 34-94
calculate_overlap(h1s, h2s) ==
    LET acc == CollectMatches(h1s, h2s)
        overlapping == SortDescending(acc.overlapping)
    IN  [etf1_ticker |-> h1s.ticker,
         etf2_ticker |-> h2s.ticker,
         etf1_name |-> h1s.name,
         etf2_name |-> h2s.name,
         overlap_percentage |-> Round2(acc.total_overlap),
         common_holdings_count |-> CommonHoldingsCount(overlapping),
         etf1_total_holdings |-> Len(h1s.holdings),
         etf2_total_holdings |-> Len(h2s.holdings),
         top_overlapping |-> TopOverlapping(overlapping)]

(***************************************************************************)
(* The overlap engine applied to every pair of input snapshots             *)
(***************************************************************************)
InitOverlap ==
    /\ holdings1 \in Snapshots
    /\ holdings2 \in Snapshots
    /\ result = NoResult
    /\ swapped = NoResult
    /\ CacheIdle
    /\ RoundTripIdle /\ FetchIdle /\ ApiIdle /\ ExtractIdle /\ LocatorIdle

\* main.py line 189: calculate_overlap(holdings1, holdings2)
CalculateOverlap ==
    /\ result = NoResult
    /\ result' = calculate_overlap(holdings1, holdings2)
    /\ UNCHANGED <<holdings1, holdings2, swapped>>
    /\ UNCHANGED <<cacheVars, roundTripVars, fetchVars, apiVars, extractVars, locatorVars>>

\* the same request with the two tickers exchanged
CalculateSwapped ==
    /\ swapped = NoResult
    /\ swapped' = calculate_overlap(holdings2, holdings1)
    /\ UNCHANGED <<holdings1, holdings2, result>>
    /\ UNCHANGED <<cacheVars, roundTripVars, fetchVars, apiVars, extractVars, locatorVars>>

NextOverlap == CalculateOverlap \/ CalculateSwapped

SpecOverlap == InitOverlap /\ [][NextOverlap]_vars

(***************************************************************************)
(* Properties of the overlap engine                                        *)
(***************************************************************************)
\* a holding has a security code (a non-empty string)
HasCode(h) == h.cusip \notin {None, ""}

EqualIgnoringCase(n1, n2) == Upper(n1) = Upper(n2)

Computed == result # NoResult

\* the holdings of A that carry the code of h2
CodeMates(A, h2) ==
    {i \in 1..Len(A.holdings) : HasCode(h2) /\ A.holdings[i].cusip = h2.cusip}

\* the holdings of A that carry the name of h2, ignoring case
NameMates(A, h2) ==
    {i \in 1..Len(A.holdings) : EqualIgnoringCase(A.holdings[i].name, h2.name)}

\* the holdings of B that have a match in A
MatchedOfB(A, B) ==
    {j \in 1..Len(B.holdings) :
        CodeMates(A, B.holdings[j]) # {} \/ NameMates(A, B.holdings[j]) # {}}

Last(S) == CHOOSE i \in S : \A k \in S : k <= i

\* the holding of A a matched holding of B is paired with: by code when
\* A has its code, by name otherwise
Partner(A, h2) ==
    IF CodeMates(A, h2) # {} THEN A.holdings[Last(CodeMates(A, h2))]
    ELSE A.holdings[Last(NameMates(A, h2))]

MinOf(a, b) == IF a <= b THEN a ELSE b

ExpectedEntry(A, h2) ==
    [name |-> Partner(A, h2).name, cusip |-> Partner(A, h2).cusip,
     weight_etf1 |-> Partner(A, h2).percentage, weight_etf2 |-> h2.percentage,
     overlap_contribution |-> MinOf(Partner(A, h2).percentage, h2.percentage)]

RECURSIVE SumOfContributions(_, _, _)
SumOfContributions(A, B, S) ==
    IF S = {} THEN 0
    ELSE LET j == CHOOSE x \in S : TRUE
         IN  ExpectedEntry(A, B.holdings[j]).overlap_contribution
               + SumOfContributions(A, B, S \ {j})

RECURSIVE SumOfWeights(_)
SumOfWeights(hs) ==
    IF hs = << >> THEN 0 ELSE Head(hs).percentage + SumOfWeights(Tail(hs))

\* C1: top_overlapping has at most 10 entries, common_holdings_count is the
\* number of matched holdings of B, not the truncated length, and is at
\* least the length of top_overlapping.
TheoremC1 ==
    Computed =>
        /\ Len(result.top_overlapping) <= 10
        /\ result.common_holdings_count = Cardinality(MatchedOfB(holdings1, holdings2))
        /\ result.common_holdings_count >= Len(result.top_overlapping)

WitnessC1 ==
    /\ Computed
    /\ result.common_holdings_count > 10
    /\ Len(result.top_overlapping) = 10

\* C2: every holding of B yields at most one match: by code when it has a
\* code that A has, otherwise by name ignoring case, otherwise none; a match
\* records the weight in A, the weight in B and their minimum, and
\* overlap_percentage is the sum of the contributions rounded once.
TheoremC2 ==
    Computed =>
        LET M == MatchedOfB(holdings1, holdings2)
        IN  /\ result.common_holdings_count = Cardinality(M)
            /\ result.common_holdings_count <= Len(holdings2.holdings)
            /\ \A k \in 1..Len(result.top_overlapping) :
                   \E j \in M : result.top_overlapping[k]
                                   = ExpectedEntry(holdings1, holdings2.holdings[j])
            /\ \A j \in M : Len(result.top_overlapping) = Cardinality(M) =>
                   \E k \in 1..Len(result.top_overlapping) :
                       result.top_overlapping[k]
                         = ExpectedEntry(holdings1, holdings2.holdings[j])
            /\ result.overlap_percentage
                 = Round2(SumOfContributions(holdings1, holdings2, M))

\* a holding of B with a code that A has under another name, while A also
\* has a holding with the name of B's holding
WitnessC2 ==
    /\ Computed
    /\ \E j \in 1..Len(holdings2.holdings) :
          /\ CodeMates(holdings1, holdings2.holdings[j]) # {}
          /\ NameMates(holdings1, holdings2.holdings[j]) # {}
          /\ CodeMates(holdings1, holdings2.holdings[j])
               \cap NameMates(holdings1, holdings2.holdings[j]) = {}
    /\ \E j \in 1..Len(holdings2.holdings) :
          j \notin MatchedOfB(holdings1, holdings2)

\* every holding has a code and the codes are pairwise distinct
UniqueCodes(A) ==
    /\ \A i \in 1..Len(A.holdings) : HasCode(A.holdings[i])
    /\ \A i, k \in 1..Len(A.holdings) :
          i # k => A.holdings[i].cusip # A.holdings[k].cusip

\* C3: for A with a code on every holding and pairwise distinct codes,
\* calculate_overlap(A, A) has overlap_percentage = the rounded sum of the
\* weights of A and common_holdings_count = the number of holdings of A.
TheoremC3 ==
    (Computed /\ holdings1 = holdings2 /\ UniqueCodes(holdings1)) =>
        /\ result.overlap_percentage = Round2(SumOfWeights(holdings1.holdings))
        /\ result.common_holdings_count = Len(holdings1.holdings)

\* two holdings that share a name and differ in code and weight
WitnessC3 ==
    /\ Computed
    /\ holdings1 = holdings2
    /\ UniqueCodes(holdings1)
    /\ \E i, k \in 1..Len(holdings1.holdings) :
          /\ i < k
          /\ holdings1.holdings[i].name = holdings1.holdings[k].name
          /\ holdings1.holdings[i].percentage < holdings1.holdings[k].percentage

\* C4: the match count of calculate_overlap(A, B) is bounded by the number of
\* holdings of B, the iterated side, and that of calculate_overlap(B, A) by
\* the number of holdings of A; the two calls can differ in count and in
\* overlap_percentage (WitnessC4).
TheoremC4 ==
    /\ Computed => result.common_holdings_count <= Len(holdings2.holdings)
    /\ swapped # NoResult => swapped.common_holdings_count <= Len(holdings1.holdings)

WitnessC4 ==
    /\ Computed
    /\ swapped # NoResult
    /\ result.overlap_percentage # swapped.overlap_percentage
    /\ result.common_holdings_count # swapped.common_holdings_count

\* holdings in the order the extractor leaves them: descending weight
SortedByWeight(A) ==
    \A i, k \in 1..Len(A.holdings) :
        i < k => A.holdings[i].percentage >= A.holdings[k].percentage

\* C5 as stated, on snapshots ordered by descending weight: a holding of A
\* without code and a holding of B without code whose names are equal
\* ignoring case are matched, the match contributing the minimum of their
\* two weights.
ClaimC5 ==
    (/\ Computed
     /\ result.common_holdings_count <= 10
     /\ SortedByWeight(holdings1)
     /\ SortedByWeight(holdings2)) =>
        \A i \in 1..Len(holdings1.holdings), j \in 1..Len(holdings2.holdings) :
            LET a == holdings1.holdings[i]
                b == holdings2.holdings[j]
            IN  (~HasCode(a) /\ ~HasCode(b) /\ EqualIgnoringCase(a.name, b.name)) =>
                    \E k \in 1..Len(result.top_overlapping) :
                        /\ result.top_overlapping[k].weight_etf2 = b.percentage
                        /\ result.top_overlapping[k].overlap_contribution
                             = MinOf(a.percentage, b.percentage)

\* C6: when no code of B occurs among the codes of A and no name of B equals
\* a name of A ignoring case, overlap_percentage and common_holdings_count
\* are 0 and top_overlapping is empty.
Disjoint(A, B) ==
    \A i \in 1..Len(A.holdings), j \in 1..Len(B.holdings) :
        /\ ~(HasCode(B.holdings[j]) /\ A.holdings[i].cusip = B.holdings[j].cusip)
        /\ ~EqualIgnoringCase(A.holdings[i].name, B.holdings[j].name)

TheoremC6 ==
    (Computed /\ Disjoint(holdings1, holdings2)) =>
        /\ result.overlap_percentage = 0
        /\ result.common_holdings_count = 0
        /\ result.top_overlapping = << >>

\* both sides hold a holding whose code is the empty string
WitnessC6 ==
    /\ Computed
    /\ Disjoint(holdings1, holdings2)
    /\ \E i \in 1..Len(holdings1.holdings) : holdings1.holdings[i].cusip = ""
    /\ \E j \in 1..Len(holdings2.holdings) : holdings2.holdings[j].cusip = ""

\* the expected entries of the matched holdings of B, in the order of B
RECURSIVE MatchesInOrder(_, _, _)
MatchesInOrder(A, B, j) ==
    IF j = 0 THEN << >>
    ELSE IF j \in MatchedOfB(A, B)
         THEN Append(MatchesInOrder(A, B, j - 1), ExpectedEntry(A, B.holdings[j]))
         ELSE MatchesInOrder(A, B, j - 1)

\* the place of M[k] when M is ordered by descending contribution and equal
\* contributions keep their order in M
StablePlace(M, k) ==
    Cardinality({l \in 1..Len(M) : M[l].overlap_contribution > M[k].overlap_contribution})
      + Cardinality({l \in 1..(k - 1) :
                        M[l].overlap_contribution = M[k].overlap_contribution})
      + 1

\* C17: top_overlapping is ordered by non-increasing contribution, and
\* entries with equal contribution keep the order in which their holdings of
\* B were iterated, so every place of the list is fixed by the inputs.
TheoremC17 ==
    Computed =>
        LET top == result.top_overlapping
            M == MatchesInOrder(holdings1, holdings2, Len(holdings2.holdings))
        IN  /\ \A i, j \in 1..Len(top) :
                   i < j => top[i].overlap_contribution >= top[j].overlap_contribution
            /\ \A k \in 1..Len(M) :
                   StablePlace(M, k) <= 10 => top[StablePlace(M, k)] = M[k]

\* two different entries with the same contribution, in the order of B
WitnessC17 ==
    /\ Computed
    /\ \E i \in 1..Len(result.top_overlapping) :
          \E j \in (i + 1)..Len(result.top_overlapping) :
              /\ result.top_overlapping[i] # result.top_overlapping[j]
              /\ result.top_overlapping[i].overlap_contribution
                   = result.top_overlapping[j].overlap_contribution
    /\ \E j \in 1..Len(holdings2.holdings) :
          /\ j \in MatchedOfB(holdings1, holdings2)
          /\ j + 1 \in MatchedOfB(holdings1, holdings2)
          /\ holdings2.holdings[j].percentage < holdings2.holdings[j + 1].percentage

\* the place in A of the holding a matched holding of B is paired with
PartnerIndex(A, h2) ==
    IF CodeMates(A, h2) # {} THEN Last(CodeMates(A, h2)) ELSE Last(NameMates(A, h2))

\* C19: each holding of A is paired with at most one holding of B, so the
\* unrounded total is at most the sum of the weights of A and at most the
\* sum of the weights of B.
ClaimC19 ==
    Computed =>
        /\ \A i \in 1..Len(holdings1.holdings) :
               Cardinality({j \in MatchedOfB(holdings1, holdings2) :
                               PartnerIndex(holdings1, holdings2.holdings[j]) = i}) <= 1
        /\ CollectMatches(holdings1, holdings2).total_overlap
             <= SumOfWeights(holdings1.holdings)
        /\ CollectMatches(holdings1, holdings2).total_overlap
             <= SumOfWeights(holdings2.holdings)

(***************************************************************************)
(* sec_parser.py: the registry and the cache files                         *)
(*                                                                         *)
(* Requests may be served by several worker processes that share           *)
(* CACHE_DIR, so the file operations of two requests interleave at the     *)
(* granularity of the system calls: exists/stat, open, read, write.  A     *)
(* file is a sequence of tokens; a token stands for a stretch of the JSON  *)
(* text that a single write() or read() may end at.                        *)
(***************************************************************************)
\* lines 25-51
ETF_INFO ==
    [SPY |-> [name |-> "SPDR S&P 500 ETF Trust", cik |-> "0000884394", series_id |-> None],
     QQQ |-> [name |-> "Invesco QQQ Trust", cik |-> "0001067839", series_id |-> None],
     IVV |-> [name |-> "iShares Core S&P 500 ETF", cik |-> "0000893818", series_id |-> "S000000104"],
     VOO |-> [name |-> "Vanguard S&P 500 ETF", cik |-> "0000102909", series_id |-> "S000584"],
     VTI |-> [name |-> "Vanguard Total Stock Market ETF", cik |-> "0000102909", series_id |-> "S000002845"]]

\* line 21
CACHE_EXPIRY_HOURS == 24

Requests == {"r1", "r2"}

\* the tickers the requests ask for: two registered funds and an unknown one
RequestTickers == {"SPY", "qqq", "XYZ"}

\* a cache path with no file
Absent == [exists |-> FALSE, content |-> << >>, mtime |-> 0]

\* the pieces of the JSON text
LBrace == [t |-> "{"]
RBrace == [t |-> "}"]
LBracket == [t |-> "["]
RBracket == [t |-> "]"]
Member(k, v) == [t |-> "member", k |-> k, v |-> v]
HoldingsOpen == [t |-> "holdings["]
Element(d) == [t |-> "element", d |-> d]
\* a stretch of zero bytes, left by a write past the end of the file
Nul == [t |-> "nul"]

\* json.dump of None / str / float, and json.load of null / string / number
JsonNull == [j |-> "null"]
JsonOptStr(x) == IF x = None THEN JsonNull ELSE [j |-> "string", s |-> x]
JsonOptNum(x) == IF x = NoValue THEN JsonNull ELSE [j |-> "number", n |-> x]
PyOptStr(v) == IF v.j = "null" THEN None ELSE v.s
PyOptNum(v) == IF v.j = "null" THEN NoValue ELSE v.n

\* the dict of one holding without its value
HoldingDictWithoutValue(h) ==
    [name |-> JsonOptStr(h.name), cusip |-> JsonOptStr(h.cusip),
     percentage |-> JsonOptNum(h.percentage)]

\* lines 142-147: the dict written for one holding
HoldingDict(h) ==
    [name |-> JsonOptStr(h.name), cusip |-> JsonOptStr(h.cusip),
     percentage |-> JsonOptNum(h.percentage), value |-> JsonOptNum(h.value)]

\* lines 138-153: the text json.dump(data, f, indent=2) writes, in the stretches
\* a write() may end at: the opening up to the holdings array, each holding,
\* the closing
Chunks(h) ==
    <<<<LBrace, Member("ticker", JsonOptStr(h.ticker)), Member("name", JsonOptStr(h.name)),
        HoldingsOpen>>>>
    \o [i \in 1..Len(h.holdings) |-> <<Element(HoldingDict(h.holdings[i]))>>]
    \o <<<<RBracket, Member("as_of_date", JsonOptStr(h.as_of_date)), RBrace>>>>

\* the text of the first k stretches
RECURSIVE Flatten(_, _)
Flatten(chunks, k) ==
    IF k = 0 THEN << >> ELSE Flatten(chunks, k - 1) \o chunks[k]

Serialize(h) == Flatten(Chunks(h), Len(Chunks(h)))

JSONDecodeError == [ok |-> FALSE]

\* line 118: json.load over the text read; one top-level value, nothing after it
RECURSIVE JsonParse(_, _, _, _, _)
JsonParse(toks, i, mode, d, arr) ==
    IF i > Len(toks)
    THEN IF mode \in {"dict", "list"} THEN [ok |-> TRUE, top |-> mode, dict |-> d]
         ELSE JSONDecodeError
    ELSE LET tk == toks[i]
         IN  CASE mode = "start" /\ tk = LBrace ->
                    JsonParse(toks, i + 1, "members", d, arr)
               [] mode = "start" /\ tk = LBracket ->
                    JsonParse(toks, i + 1, "items", d, arr)
               [] mode = "items" /\ tk = RBracket ->
                    JsonParse(toks, i + 1, "list", d, arr)
               [] mode = "members" /\ tk.t = "member" ->
                    JsonParse(toks, i + 1, "members", DictPut(d, tk.k, tk.v), arr)
               [] mode = "members" /\ tk = HoldingsOpen ->
                    JsonParse(toks, i + 1, "elements", d, << >>)
               [] mode = "elements" /\ tk.t = "element" ->
                    JsonParse(toks, i + 1, "elements", d, Append(arr, tk.d))
               [] mode = "elements" /\ tk = RBracket ->
                    JsonParse(toks, i + 1, "members",
                              DictPut(d, "holdings", [j |-> "array", items |-> arr]), arr)
               [] mode = "members" /\ tk = RBrace ->
                    JsonParse(toks, i + 1, "dict", d, arr)
               [] OTHER -> JSONDecodeError

json_load(toks) == JsonParse(toks, 1, "start", EmptyDict, << >>)

\* line 119: Holding(**h) raises TypeError on a missing or an unexpected keyword
HoldingAccepts(d) ==
    /\ {"name", "cusip", "percentage"} \subseteq DOMAIN d
    /\ DOMAIN d \subseteq {"name", "cusip", "percentage", "value"}

HoldingFromDict(d) ==
    [name |-> PyOptStr(d.name), cusip |-> PyOptStr(d.cusip),
     percentage |-> PyOptNum(d.percentage),
     value |-> IF "value" \in DOMAIN d THEN PyOptNum(d.value) ELSE NoValue]

CacheMiss == [kind |-> "none"]
Raised(exc) == [kind |-> "raise", exc |-> exc]
CacheHit(h) == [kind |-> "value", value |-> h, cached |-> TRUE]
Fetched(h) == [kind |-> "value", value |-> h, cached |-> FALSE]
Pending == [kind |-> "pending"]

\* lines 116-128: what _load_from_cache makes of the text it read
LoadResult(toks) ==
    LET p == json_load(toks)
    IN  IF ~p.ok THEN CacheMiss
        ELSE IF p.top = "list" THEN Raised("TypeError")
        ELSE IF "holdings" \notin DOMAIN p.dict THEN CacheMiss
        ELSE IF p.dict["holdings"].j # "array" THEN Raised("TypeError")
        ELSE IF \E i \in 1..Len(p.dict["holdings"].items) :
                   ~HoldingAccepts(p.dict["holdings"].items[i])
             THEN Raised("TypeError")
        ELSE IF "ticker" \notin DOMAIN p.dict \/ "name" \notin DOMAIN p.dict
             THEN CacheMiss
        ELSE CacheHit(
               [ticker |-> PyOptStr(p.dict["ticker"]),
                name |-> PyOptStr(p.dict["name"]),
                holdings |-> [i \in 1..Len(p.dict["holdings"].items) |->
                                HoldingFromDict(p.dict["holdings"].items[i])],
                as_of_date |-> IF "as_of_date" \in DOMAIN p.dict
                               THEN PyOptStr(p.dict["as_of_date"]) ELSE None])

\* the comparison accepts an age of exactly CACHE_EXPIRY_HOURS
IsFreshInclusive(mtime, t) == t - mtime <= CACHE_EXPIRY_HOURS

\* line 100: datetime.now() - mtime < timedelta(hours=CACHE_EXPIRY_HOURS)
IsFresh(mtime, t) == t - mtime < CACHE_EXPIRY_HOURS

\* lines 96-100
IsCacheValid(file, t) == file.exists /\ IsFresh(file.mtime, t)

(***************************************************************************)
(* sec_parser.py: the filing documents and their extraction                *)
(***************************************************************************)
\* the text of a child element of an invstOrSec: the element may be absent
\* or empty, hold a string, a number, "nan", or something float() rejects
NoElem == [x |-> "absent"]
EmptyText == [x |-> "empty"]
Txt(str) == [x |-> "str", s |-> str]
Num(n) == [x |-> "num", n |-> n]
NanText == [x |-> "nan"]
Garbage == [x |-> "garbage"]

\* an invstOrSec element with its name, cusip, pctVal and valUSD children
InvstOrSec(name, cusip, pctVal, valUSD) ==
    [name |-> name, cusip |-> cusip, pctVal |-> pctVal, valUSD |-> valUSD]

\* a well-formed investment without a value
Investment(name, cusip, pctVal) == InvstOrSec(Txt(name), Txt(cusip), Num(pctVal), NoElem)

\* the documents a fetch can return: no investment with a positive weight,
\* one investment, two investments out of order
Documents ==
    { <<Investment("Apple Inc", "037833100", 0)>>,
      <<Investment("Apple Inc", "037833100", 8)>>,
      <<Investment("Tesla Inc", "88160R101", 3), Investment("Apple Inc", "037833100", 8)>> }

\* line 345: insertion into a list sorted by descending percentage, after its equals
RECURSIVE InsertByPercentage(_, _)
InsertByPercentage(s, x) ==
    IF s = << >> THEN <<x>>
    ELSE IF Head(s).percentage >= x.percentage
         THEN <<Head(s)>> \o InsertByPercentage(Tail(s), x)
         ELSE <<x>> \o s

\* str.strip() on the strings of the model
Strip(str) ==
    CASE str = " Microsoft Corp " -> "Microsoft Corp"
      [] OTHER -> str

\* lines 319, 323: elem.text.strip() if elem is not None and elem.text else default
TextOr(t, default) == IF t.x = "str" THEN Strip(t.s) ELSE default

\* lines 327, 331: float(elem.text) if elem is not None and elem.text else
\* default; float() raises ValueError on text that is no number
FloatOr(t, default) ==
    CASE t.x \in {"absent", "empty"} -> [exc |-> None, nan |-> FALSE, n |-> default]
      [] t.x = "num" -> [exc |-> None, nan |-> FALSE, n |-> t.n]
      [] t.x = "nan" -> [exc |-> None, nan |-> TRUE, n |-> 0]
      [] OTHER -> [exc |-> "ValueError", nan |-> FALSE, n |-> default]

\* only AttributeError is caught
CaughtAttributeErrorOnly(exc) == exc = "AttributeError"

\* line 340: except (AttributeError, ValueError)
Caught(exc) == exc \in {"AttributeError", "ValueError"}

\* lines 299-339: the body of the loop for one element: the exception it
\* ends with, if any, and the holding it appends, if any
ParseInvestment(inv) ==
    LET percentage == FloatOr(inv.pctVal, 0)
        value == FloatOr(inv.valUSD, NoValue)
    IN  IF percentage.exc # None THEN [exc |-> percentage.exc, append |-> << >>]
        ELSE IF value.exc # None THEN [exc |-> value.exc, append |-> << >>]
        ELSE IF ~percentage.nan /\ percentage.n > 0
             THEN [exc |-> None,
                   append |-> <<[name |-> TextOr(inv.name, "Unknown"),
                                 cusip |-> TextOr(inv.cusip, None),
                                 percentage |-> percentage.n, value |-> value.n]>>]
             ELSE [exc |-> None, append |-> << >>]

\* lines 298-342: the loop over the elements; an exception that is not
\* caught ends it
RECURSIVE CollectHoldings(_, _, _)
CollectHoldings(doc, i, holdings) ==
    IF i > Len(doc) THEN [raised |-> None, holdings |-> holdings]
    ELSE LET one == ParseInvestment(doc[i])
         IN  IF one.exc # None /\ ~Caught(one.exc)
             THEN [raised |-> one.exc, holdings |-> holdings]
             ELSE CollectHoldings(doc, i + 1, holdings \o one.append)

\* line 345: holdings.sort(key=percentage, reverse=True), which is stable
RECURSIVE SortByPercentage(_)
SortByPercentage(hs) ==
    IF hs = << >> THEN << >>
    ELSE InsertByPercentage(SortByPercentage(SubSeq(hs, 1, Len(hs) - 1)), hs[Len(hs)])

\* lines 236-347: the outcome of _parse_nport_xml on the elements of a document
Extraction(doc) ==
    LET c == CollectHoldings(doc, 1, << >>)
    IN  IF c.raised # None THEN Raised(c.raised)
        ELSE [kind |-> "value", holdings |-> SortByPercentage(c.holdings)]

\* lines 298-347: holdings with a positive weight, sorted by descending weight
ParseNportXml(doc) == SortByPercentage(CollectHoldings(doc, 1, << >>).holdings)

(***************************************************************************)
(* What the cache directory may hold when the requests start               *)
(***************************************************************************)
OldSnapshot ==
    [ticker |-> "SPY", name |-> ETF_INFO["SPY"].name,
     holdings |-> <<Holding("Microsoft Corp", "594918104", 8)>>, as_of_date |-> None]

OldText == Serialize(OldSnapshot)

\* a file left by a write of OldSnapshot that did not finish: cut after the
\* open(), or after the last holding
Truncated == {<< >>, Flatten(Chunks(OldSnapshot), Len(Chunks(OldSnapshot)) - 1)}

\* valid JSON that is no snapshot: a list, a dict without "holdings" and "name",
\* a holding without "percentage", a holding with a field Holding does not have
Malformed ==
    { <<LBracket, RBracket>>,
      <<LBrace, Member("ticker", JsonOptStr("SPY")), RBrace>>,
      <<LBrace, Member("ticker", JsonOptStr("SPY")), Member("name", JsonOptStr("SPDR")),
        HoldingsOpen,
        Element([name |-> JsonOptStr("Apple Inc"), cusip |-> JsonNull]),
        RBracket, RBrace>>,
      <<LBrace, Member("ticker", JsonOptStr("SPY")), Member("name", JsonOptStr("SPDR")),
        HoldingsOpen,
        Element([name |-> JsonOptStr("Apple Inc"), cusip |-> JsonNull,
                 percentage |-> JsonOptNum(8), value |-> JsonNull,
                 shares |-> JsonOptNum(1)]),
        RBracket, RBrace>> }

InitialFiles ==
    {Absent} \cup {[exists |-> TRUE, content |-> c, mtime |-> 0] :
                     c \in {OldText} \cup Truncated \cup Malformed}

NotChecked == [checked |-> FALSE]

\* a request: pc is its position in get_etf_holdings, seen what _is_cache_valid
\* observed, pos the tokens read or the stretches written, buf the text read,
\* sent the outbound steps (locator, filing fetch) the call has taken
IdleRequest ==
    [pc |-> "idle", ticker |-> None, force_refresh |-> FALSE, seen |-> NotChecked,
     pos |-> 0, buf |-> << >>, holdings |-> << >>, sent |-> 0, ret |-> Pending]

Init ==
    /\ holdings1 = ETFHoldings("ETF", "Test ETF", << >>)
    /\ holdings2 = ETFHoldings("ETF", "Test ETF", << >>)
    /\ result = NoResult
    /\ swapped = NoResult
    /\ \E f \in InitialFiles :
         /\ cache = [t \in DOMAIN ETF_INFO |-> IF t = "SPY" THEN f ELSE Absent]
         /\ saved = [t \in DOMAIN ETF_INFO |->
                       IF t = "SPY" /\ f.exists /\ f.content \in {OldText} \cup Truncated
                       THEN {OldSnapshot} ELSE {}]
    /\ now = 0
    /\ req = [r \in Requests |-> IdleRequest]
    /\ RoundTripIdle /\ FetchIdle /\ ApiIdle /\ ExtractIdle /\ LocatorIdle

(***************************************************************************)
(* sec_parser.py: get_etf_holdings, one action per step of a request       *)
(***************************************************************************)
\* return: the call ends with ret and its locals are gone
Return(q, ret) ==
    [q EXCEPT !.pc = "done", !.ret = ret, !.pos = 0, !.buf = << >>, !.holdings = << >>]

\* the cache is never consulted
EntryPointIgnoringCache(force_refresh) == "locate"

\* line 367: "if not force_refresh" guards the cache lookup
EntryPoint(force_refresh) == IF force_refresh THEN "locate" ELSE "stat"

\* lines 360-373: entry; an unknown ticker returns None
Call(r, ticker, force_refresh) ==
    /\ req[r].pc = "idle"
    /\ LET t == Upper(ticker)
           q == [req[r] EXCEPT !.ticker = t, !.force_refresh = force_refresh]
       IN  req' = [req EXCEPT ![r] =
                     IF t \notin DOMAIN ETF_INFO THEN Return(q, CacheMiss)
                     ELSE [q EXCEPT !.pc = EntryPoint(force_refresh)]]
    /\ UNCHANGED <<cache, now, saved>>
    /\ UNCHANGED <<overlapVars, roundTripVars, fetchVars, apiVars, extractVars, locatorVars>>

\* lines 112-114: _is_cache_valid; an absent or expired file is a miss
CheckCacheValid(r) ==
    /\ req[r].pc = "stat"
    /\ LET file == cache[req[r].ticker]
       IN  req' = [req EXCEPT ![r].seen =
                       [checked |-> TRUE, exists |-> file.exists,
                        mtime |-> file.mtime, now |-> now],
                     ![r].pc = IF IsCacheValid(file, now) THEN "open" ELSE "locate"]
    /\ UNCHANGED <<cache, now, saved>>
    /\ UNCHANGED <<overlapVars, roundTripVars, fetchVars, apiVars, extractVars, locatorVars>>

\* line 117: open(cache_path, "r")
OpenCache(r) ==
    /\ req[r].pc = "open"
    /\ req' = [req EXCEPT ![r].pc = "read", ![r].pos = 0, ![r].buf = << >>]
    /\ UNCHANGED <<cache, now, saved>>
    /\ UNCHANGED <<overlapVars, roundTripVars, fetchVars, apiVars, extractVars, locatorVars>>

\* line 118: one read() of f.read(); it returns what the file holds past pos
ReadCache(r) ==
    /\ req[r].pc = "read"
    /\ LET content == cache[req[r].ticker].content
       IN  /\ Len(content) > req[r].pos
           /\ req' = [req EXCEPT
                        ![r].buf = @ \o SubSeq(content, req[r].pos + 1, Len(content)),
                        ![r].pos = Len(content)]
    /\ UNCHANGED <<cache, now, saved>>
    /\ UNCHANGED <<overlapVars, roundTripVars, fetchVars, apiVars, extractVars, locatorVars>>

\* lines 118-128, 369-371: read() returns nothing more; the text is decoded
FinishLoad(r) ==
    /\ req[r].pc = "read"
    /\ Len(cache[req[r].ticker].content) <= req[r].pos
    /\ LET loaded == LoadResult(req[r].buf)
       IN  req' = [req EXCEPT ![r] =
                     IF loaded.kind = "none"
                     THEN [@ EXCEPT !.pc = "locate", !.pos = 0, !.buf = << >>]
                     ELSE Return(@, loaded)]
    /\ UNCHANGED <<cache, now, saved>>
    /\ UNCHANGED <<overlapVars, roundTripVars, fetchVars, apiVars, extractVars, locatorVars>>

\* lines 377-379: the locator finds the filing URL, or nothing
Locate(r, found) ==
    /\ req[r].pc = "locate"
    /\ req' = [req EXCEPT ![r] =
                 IF found THEN [@ EXCEPT !.pc = "fetch", !.sent = @ + 1]
                 ELSE Return([@ EXCEPT !.sent = @ + 1], CacheMiss)]
    /\ UNCHANGED <<cache, now, saved>>
    /\ UNCHANGED <<overlapVars, roundTripVars, fetchVars, apiVars, extractVars, locatorVars>>

\* lines 383-387: the fetch of the filing fails
FetchFails(r) ==
    /\ req[r].pc = "fetch"
    /\ req' = [req EXCEPT ![r] = Return([@ EXCEPT !.sent = @ + 1], CacheMiss)]
    /\ UNCHANGED <<cache, now, saved>>
    /\ UNCHANGED <<overlapVars, roundTripVars, fetchVars, apiVars, extractVars, locatorVars>>

\* every extraction counts as a retrieval
RetrievedAlways(holdings) == TRUE

\* line 392: "if not holdings: return None"
Retrieved(holdings) == holdings # << >>

\* lines 384-400: the filing is fetched and parsed; no holdings returns None
Extract(r, doc) ==
    /\ req[r].pc = "fetch"
    /\ LET holdings == ParseNportXml(doc)
       IN  req' = [req EXCEPT ![r] =
                     IF Retrieved(holdings)
                     THEN [@ EXCEPT !.pc = "save", !.holdings = holdings, !.sent = @ + 1]
                     ELSE Return([@ EXCEPT !.sent = @ + 1], CacheMiss)]
    /\ UNCHANGED <<cache, now, saved>>
    /\ UNCHANGED <<overlapVars, roundTripVars, fetchVars, apiVars, extractVars, locatorVars>>

\* lines 395-399: the ETFHoldings the request built
Snapshot(q) == ETFHoldings(q.ticker, ETF_INFO[q.ticker].name, q.holdings)

\* line 152: open(cache_path, "w") creates the file or truncates it
OpenForWrite(file, t) == [exists |-> TRUE, content |-> << >>, mtime |-> t]

\* lines 137-152: _save_to_cache opens the file
SaveOpen(r) ==
    /\ req[r].pc = "save"
    /\ cache' = [cache EXCEPT ![req[r].ticker] = OpenForWrite(@, now)]
    /\ saved' = [saved EXCEPT ![req[r].ticker] = @ \cup {Snapshot(req[r])}]
    /\ req' = [req EXCEPT ![r].pc = "write", ![r].pos = 0]
    /\ UNCHANGED now
    /\ UNCHANGED <<overlapVars, roundTripVars, fetchVars, apiVars, extractVars, locatorVars>>

\* write(): the text lands at the writer's offset; a gap is filled with zeros
WriteAt(content, offset, text) ==
    [i \in 1..(IF Len(content) > offset + Len(text) THEN Len(content)
               ELSE offset + Len(text)) |->
        IF i > offset /\ i <= offset + Len(text) THEN text[i - offset]
        ELSE IF i <= Len(content) THEN content[i] ELSE Nul]

\* lines 153, 403-405: json.dump writes the next stretch; after the last one
\* the file is closed and the snapshot returned
SaveWrite(r) ==
    /\ req[r].pc = "write"
    /\ LET file == cache[req[r].ticker]
           chunks == Chunks(Snapshot(req[r]))
           offset == Len(Flatten(chunks, req[r].pos))
       IN  /\ cache' = [cache EXCEPT ![req[r].ticker] =
                          [exists |-> TRUE,
                           content |-> WriteAt(file.content, offset, chunks[req[r].pos + 1]),
                           mtime |-> now]]
           /\ req' = [req EXCEPT ![r] =
                        IF req[r].pos + 1 = Len(chunks)
                        THEN Return(@, Fetched(Snapshot(req[r])))
                        ELSE [@ EXCEPT !.pos = @ + 1]]
    /\ UNCHANGED <<now, saved>>
    /\ UNCHANGED <<overlapVars, roundTripVars, fetchVars, apiVars, extractVars, locatorVars>>

\* time passes, half a freshness window at a time
Tick ==
    /\ now + CACHE_EXPIRY_HOURS \div 2 <= MaxNow
    /\ now' = now + CACHE_EXPIRY_HOURS \div 2
    /\ UNCHANGED <<cache, req, saved>>
    /\ UNCHANGED <<overlapVars, roundTripVars, fetchVars, apiVars, extractVars, locatorVars>>

Next ==
    \/ \E r \in Requests, ticker \in RequestTickers, force_refresh \in BOOLEAN :
           Call(r, ticker, force_refresh)
    \/ \E r \in Requests : CheckCacheValid(r)
    \/ \E r \in Requests : OpenCache(r)
    \/ \E r \in Requests : ReadCache(r)
    \/ \E r \in Requests : FinishLoad(r)
    \/ \E r \in Requests, found \in BOOLEAN : Locate(r, found)
    \/ \E r \in Requests : FetchFails(r)
    \/ \E r \in Requests, doc \in Documents : Extract(r, doc)
    \/ \E r \in Requests : SaveOpen(r)
    \/ \E r \in Requests : SaveWrite(r)
    \/ Tick

Spec == Init /\ [][Next]_vars

(***************************************************************************)
(* Properties of the cache                                                 *)
(***************************************************************************)
\* the request returned a snapshot loaded from the cache
IsHit(q) == q.ret.kind = "value" /\ q.ret.cached

\* the request checked the slot and found it absent or expired
SawNoValidSlot(q) ==
    /\ q.seen.checked
    /\ ~(q.seen.exists /\ q.seen.now - q.seen.mtime < CACHE_EXPIRY_HOURS)

\* C7: a write of a slot is atomic for a reader of the slot: every snapshot a
\* read returns as a hit is the complete content some write of the slot put
\* there, the previous one or the new one, never a mixture.
ClaimC7 ==
    \A r \in Requests : IsHit(req[r]) => req[r].ret.value \in saved[req[r].ticker]

\* C8: a read of a slot whose content is corrupt (not JSON, keys missing, a
\* list at the top, holding records with missing or unexpected fields) is a
\* miss: get_etf_holdings never ends by raising an error.
ClaimC8 ==
    \A r \in Requests : req[r].ret.kind # "raise"

\* C9: a read is a hit only if the slot exists and was written strictly less
\* than CACHE_EXPIRY_HOURS before the check; a request that finds the slot
\* absent or expired does not open it, so it misses whatever the slot holds.
TheoremC9 ==
    \A r \in Requests :
        /\ IsHit(req[r]) =>
              /\ req[r].seen.checked
              /\ req[r].seen.exists
              /\ req[r].seen.now - req[r].seen.mtime < CACHE_EXPIRY_HOURS
        /\ (req[r].seen.checked /\ SawNoValidSlot(req[r])) =>
              /\ req[r].pc \notin {"open", "read"}
              /\ ~IsHit(req[r])
              /\ req[r].ret.kind # "raise"

\* an expired slot that still holds a complete snapshot, passed over by a request
WitnessC9 ==
    \E r \in Requests :
        /\ req[r].pc = "locate"
        /\ req[r].seen.checked
        /\ req[r].seen.exists
        /\ req[r].seen.now - req[r].seen.mtime = CACHE_EXPIRY_HOURS
        /\ cache[req[r].ticker].mtime = req[r].seen.mtime
        /\ LoadResult(cache[req[r].ticker].content).kind = "value"

\* C10: a slot (content and last-write time) changes only in a step of the
\* write that ends a successful retrieval for that fund: a step of a request
\* for the same ticker that holds extracted holdings and is saving them.
TheoremC10 ==
    [][\A t \in DOMAIN ETF_INFO :
          cache'[t] # cache[t] =>
              \E r \in Requests :
                  /\ req[r].ticker = t
                  /\ req[r].pc \in {"save", "write"}
                  /\ req[r].holdings # << >>
                  /\ req'[r] # req[r]
                  /\ \A o \in Requests \ {r} : req'[o] = req[o]]_vars

\* a corrupt slot read as a miss, a retrieval that then failed, a retrieval
\* for another fund that succeeded, and the slot as it was at the start
WitnessC10 ==
    /\ cache["SPY"].exists
    /\ cache["SPY"].mtime = 0
    /\ cache["SPY"].content \in Malformed
    /\ LoadResult(cache["SPY"].content).kind = "none"
    /\ now > 0
    /\ \E r \in Requests :
          /\ req[r].ticker = "SPY"
          /\ req[r].pc = "done"
          /\ req[r].seen.checked
          /\ ~SawNoValidSlot(req[r])
          /\ req[r].ret = CacheMiss
    /\ \E r \in Requests :
          /\ req[r].ticker = "QQQ"
          /\ req[r].pc = "done"
          /\ req[r].ret.kind = "value"

\* C12: a call with force_refresh false that finds a valid snapshot in the
\* cache returns it without any outbound step; a call goes outbound only
\* with force_refresh true or after a lookup that missed (slot absent or
\* expired, or nothing loaded); a snapshot returned by a retrieval, also a
\* forced one, was written to the slot.
TheoremC12 ==
    [][\A r \in Requests :
          /\ IsHit(req'[r]) => req'[r].sent = 0 /\ ~req'[r].force_refresh
          /\ req'[r].sent > req[r].sent => req[r].pc \in {"locate", "fetch"}
          /\ (req'[r].pc = "locate" /\ req[r].pc # "locate") =>
                \/ req[r].pc = "idle" /\ req'[r].force_refresh
                \/ req[r].pc = "stat" /\ SawNoValidSlot(req'[r])
                \/ req[r].pc = "read" /\ LoadResult(req[r].buf) = CacheMiss
          /\ (req'[r].ret.kind = "value" /\ ~req'[r].ret.cached) =>
                /\ req'[r].sent > 0
                /\ req'[r].ret.value \in saved'[req'[r].ticker]
                /\ req[r].pc \in {"write", "done"}]_vars

\* one call answered from the cache, one forced call that retrieved and
\* wrote while the slot was valid
WitnessC12 ==
    \E r, o \in Requests :
        /\ IsHit(req[r])
        /\ req[r].sent = 0
        /\ req[o].force_refresh
        /\ req[o].ret.kind = "value"
        /\ ~req[o].ret.cached
        /\ req[o].ticker = req[r].ticker
        /\ cache[req[o].ticker].content = Serialize(req[o].ret.value)

(***************************************************************************)
(* sec_parser.py: _save_to_cache followed by _load_from_cache, one caller  *)
(***************************************************************************)
\* the holdings the snapshots to save are built from: with and without a
\* code, with and without a value
RoundTripHoldings ==
    { [Holding("Apple Inc", "037833100", 8) EXCEPT !.value = 1000],
      Holding("Apple Inc", "037833100", 8),
      [Holding("Unknown", None, 3) EXCEPT !.value = 0],
      Holding("Tesla Inc", "", 1) }

\* the snapshots given to _save_to_cache
RoundTripSnapshots ==
    { [ticker |-> t, name |-> ETF_INFO[Upper(t)].name, holdings |-> hs, as_of_date |-> d] :
        t \in {"SPY", "spy"}, hs \in SeqsUpTo(RoundTripHoldings, MaxLen),
        d \in {None, "2024-01-31"} }

NotLoaded == [ticker |-> None]

InitRoundTrip ==
    /\ cache = [t \in DOMAIN ETF_INFO |-> Absent]
    /\ now = 0
    /\ written = [t \in DOMAIN ETF_INFO |-> NoResult]
    /\ lastLoad = NotLoaded
    /\ req = << >>
    /\ saved = << >>
    /\ OverlapIdle /\ FetchIdle /\ ApiIdle /\ ExtractIdle /\ LocatorIdle

\* lines 131-153: _save_to_cache(S), from open() to close()
SaveToCache(S) ==
    /\ cache' = [cache EXCEPT ![Upper(S.ticker)] =
                   [exists |-> TRUE,
                    content |-> WriteAt(OpenForWrite(@, now).content, 0, Serialize(S)),
                    mtime |-> now]]
    /\ written' = [written EXCEPT ![Upper(S.ticker)] = S]
    /\ lastLoad' = NotLoaded
    /\ UNCHANGED <<now, req, saved>>
    /\ UNCHANGED <<overlapVars, fetchVars, apiVars, extractVars, locatorVars>>

\* lines 103-128: _load_from_cache(ticker)
LoadFromCache(ticker) ==
    /\ lastLoad' = [ticker |-> Upper(ticker), at |-> now,
                  ret |-> IF IsCacheValid(cache[Upper(ticker)], now)
                          THEN LoadResult(cache[Upper(ticker)].content)
                          ELSE CacheMiss]
    /\ UNCHANGED <<cache, now, req, saved, written>>
    /\ UNCHANGED <<overlapVars, fetchVars, apiVars, extractVars, locatorVars>>

\* time passes between the calls
Wait ==
    /\ now + CACHE_EXPIRY_HOURS \div 2 <= MaxNow
    /\ now' = now + CACHE_EXPIRY_HOURS \div 2
    /\ UNCHANGED <<cache, req, saved, written, lastLoad>>
    /\ UNCHANGED <<overlapVars, fetchVars, apiVars, extractVars, locatorVars>>

NextRoundTrip ==
    \/ \E S \in RoundTripSnapshots : SaveToCache(S)
    \/ \E ticker \in {"SPY", "spy", "QQQ"} : LoadFromCache(ticker)
    \/ Wait

SpecRoundTrip == InitRoundTrip /\ [][NextRoundTrip]_vars

\* C11: a snapshot S written to the cache and read back from the same slot
\* less than CACHE_EXPIRY_HOURS later, with no write in between, is returned
\* equal to S: ticker, name, as-of date, and the holdings in order with
\* their name, code, weight and value.
TheoremC11 ==
    (/\ lastLoad # NotLoaded
     /\ written[lastLoad.ticker] # NoResult
     /\ lastLoad.at - cache[lastLoad.ticker].mtime < CACHE_EXPIRY_HOURS) =>
        /\ lastLoad.ret.kind = "value"
        /\ lastLoad.ret.value = written[lastLoad.ticker]
        /\ lastLoad.ret.value.ticker = written[lastLoad.ticker].ticker
        /\ lastLoad.ret.value.as_of_date = written[lastLoad.ticker].as_of_date
        /\ Len(lastLoad.ret.value.holdings) = Len(written[lastLoad.ticker].holdings)
        /\ \A i \in 1..Len(lastLoad.ret.value.holdings) :
               lastLoad.ret.value.holdings[i] = written[lastLoad.ticker].holdings[i]

\* read back half a window later: a lower-case ticker, an as-of date, a
\* holding without a code next to one with a value
WitnessC11 ==
    /\ lastLoad # NotLoaded
    /\ lastLoad.at - cache[lastLoad.ticker].mtime = CACHE_EXPIRY_HOURS \div 2
    /\ lastLoad.ret.kind = "value"
    /\ lastLoad.ret.value.ticker = "spy"
    /\ lastLoad.ret.value.as_of_date # None
    /\ Len(lastLoad.ret.value.holdings) = 2
    /\ lastLoad.ret.value.holdings[1].cusip = None
    /\ lastLoad.ret.value.holdings[1].value = 0
    /\ lastLoad.ret.value.holdings[2].value = NoValue

(***************************************************************************)
(* sec_parser.py: _fetch_with_rate_limit, called by concurrent retrievals  *)
(***************************************************************************)
\* line 157: delay: float = 0.1, in milliseconds
delay == 100

\* the retrievals the event loop runs: one task per HTTP request being served
Tasks == {"t1", "t2"}

IdleFetcher == [pc |-> "idle", wake |-> 0, calls |-> 0]

InitFetch ==
    /\ clock = 0
    /\ fetcher = [k \in Tasks |-> IdleFetcher]
    /\ sentAt = << >>
    /\ OverlapIdle /\ CacheIdle /\ RoundTripIdle /\ ApiIdle /\ ExtractIdle /\ LocatorIdle

\* line 172: await asyncio.sleep(delay); the task resumes at clock + delay or later
Sleep(k) ==
    /\ fetcher[k].pc = "idle"
    /\ fetcher[k].calls < MaxFetches
    /\ fetcher' = [fetcher EXCEPT ![k] =
                     [pc |-> "sleep", wake |-> clock + delay, calls |-> @.calls + 1]]
    /\ UNCHANGED <<clock, sentAt>>
    /\ UNCHANGED <<overlapVars, cacheVars, roundTripVars, apiVars, extractVars, locatorVars>>

\* lines 173-174: the sleep is over; session.get issues the request
Send(k) ==
    /\ fetcher[k].pc = "sleep"
    /\ clock >= fetcher[k].wake
    /\ sentAt' = Append(sentAt, clock)
    /\ fetcher' = [fetcher EXCEPT ![k].pc = "await"]
    /\ UNCHANGED clock
    /\ UNCHANGED <<overlapVars, cacheVars, roundTripVars, apiVars, extractVars, locatorVars>>

\* lines 174-176: the response arrives, or the request fails; the call ends
Receive(k) ==
    /\ fetcher[k].pc = "await"
    /\ fetcher' = [fetcher EXCEPT ![k].pc = "idle"]
    /\ UNCHANGED <<clock, sentAt>>
    /\ UNCHANGED <<overlapVars, cacheVars, roundTripVars, apiVars, extractVars, locatorVars>>

\* time passes, half a delay at a time
Advance ==
    /\ clock + delay \div 2 <= MaxClock
    /\ clock' = clock + delay \div 2
    /\ UNCHANGED <<fetcher, sentAt>>
    /\ UNCHANGED <<overlapVars, cacheVars, roundTripVars, apiVars, extractVars, locatorVars>>

NextFetch ==
    \/ \E k \in Tasks : Sleep(k)
    \/ \E k \in Tasks : Send(k)
    \/ \E k \in Tasks : Receive(k)
    \/ Advance

SpecFetch == InitFetch /\ [][NextFetch]_vars

\* C13: any two requests issued through _fetch_with_rate_limit, also by
\* retrievals that run concurrently, are sent at least delay apart.
ClaimC13 ==
    \A i, j \in 1..Len(sentAt) : i < j => sentAt[j] - sentAt[i] >= delay

(***************************************************************************)
(* main.py: get_holdings and analyze_overlap                               *)
(***************************************************************************)
\* the tickers a client may send
ApiTickers == {"SPY", "spy", "QQQ", "XYZ"}

\* the requests a client may send
ApiRequests ==
    {[endpoint |-> "holdings", ticker1 |-> t, ticker2 |-> None] : t \in ApiTickers}
    \cup {[endpoint |-> "overlap", ticker1 |-> t1, ticker2 |-> t2] :
            t1 \in ApiTickers, t2 \in ApiTickers}

\* what a get_etf_holdings call may come back with: None, a snapshot, or an
\* exception that leaves it; for an unregistered ticker None (lines 362-364)
GetEtfHoldingsOutcomes(ticker) ==
    IF ticker \notin DOMAIN ETF_INFO THEN {CacheMiss}
    ELSE { CacheMiss, Raised("TypeError"),
           Fetched(ETFHoldings(ticker, ETF_INFO[ticker].name,
                               <<Holding("Apple Inc", "037833100", 8)>>)),
           CacheHit(ETFHoldings(ticker, ETF_INFO[ticker].name,
                                <<Holding("Apple Inc", None, 3),
                                  Holding("Tesla Inc", "88160R101", 1)>>)) }

\* no registry lookup
RegisteredAlways(ticker) == TRUE

\* main.py lines 112, 160: ticker in ETF_INFO
Registered(ticker) == ticker \in DOMAIN ETF_INFO

\* no comparison of the two tickers
SameFundNever(ticker1, ticker2) == FALSE

\* main.py line 166: ticker1 == ticker2
SameFund(ticker1, ticker2) == ticker1 = ticker2

NoBody == [kind |-> "none"]

InitApi ==
    /\ \E request \in ApiRequests :
          api = [request |-> request, pc |-> "validate",
                 ticker1 |-> None, ticker2 |-> None,
                 calls |-> << >>, got |-> << >>, status |-> 0, body |-> NoBody]
    /\ OverlapIdle /\ CacheIdle /\ RoundTripIdle /\ FetchIdle /\ ExtractIdle /\ LocatorIdle

\* HTTPException(status_code=...), or the response
Respond(status, body) ==
    api' = [api EXCEPT !.pc = "done", !.status = status, !.body = body]

\* main.py lines 110-116: get_holdings upper-cases and validates the ticker
ValidateHoldings ==
    /\ api.request.endpoint = "holdings"
    /\ api.pc = "validate"
    /\ LET ticker == Upper(api.request.ticker1)
       IN  IF ~Registered(ticker)
           THEN api' = [api EXCEPT !.pc = "done", !.ticker1 = ticker, !.status = 404]
           ELSE api' = [api EXCEPT !.pc = "retrieve", !.ticker1 = ticker]
    /\ UNCHANGED <<overlapVars, cacheVars, roundTripVars, fetchVars, extractVars, locatorVars>>

\* main.py line 118: holdings = await get_etf_holdings(ticker)
RetrieveHoldings(outcome) ==
    /\ api.request.endpoint = "holdings"
    /\ api.pc = "retrieve"
    /\ outcome \in GetEtfHoldingsOutcomes(api.ticker1)
    /\ api' = [api EXCEPT !.calls = Append(@, api.ticker1),
                          !.got = Append(@, outcome),
                          !.pc = IF outcome.kind = "raise" THEN "done" ELSE "respond",
                          !.status = IF outcome.kind = "raise" THEN 500 ELSE 0]
    /\ UNCHANGED <<overlapVars, cacheVars, roundTripVars, fetchVars, extractVars, locatorVars>>

\* main.py lines 120-139: None is answered with 503, a snapshot with its content
RespondHoldings ==
    /\ api.request.endpoint = "holdings"
    /\ api.pc = "respond"
    /\ IF api.got[1] = CacheMiss THEN Respond(503, NoBody)
       ELSE Respond(200, api.got[1].value)
    /\ UNCHANGED <<overlapVars, cacheVars, roundTripVars, fetchVars, extractVars, locatorVars>>

\* main.py lines 155-170: analyze_overlap upper-cases and validates both
\* tickers, then rejects a pair of equal tickers
ValidateOverlap ==
    /\ api.request.endpoint = "overlap"
    /\ api.pc = "validate"
    /\ LET ticker1 == Upper(api.request.ticker1)
           ticker2 == Upper(api.request.ticker2)
           upper == [api EXCEPT !.ticker1 = ticker1, !.ticker2 = ticker2]
       IN  IF ~Registered(ticker1) \/ ~Registered(ticker2)
           THEN api' = [upper EXCEPT !.pc = "done", !.status = 404]
           ELSE IF SameFund(ticker1, ticker2)
                THEN api' = [upper EXCEPT !.pc = "done", !.status = 400]
                ELSE api' = [upper EXCEPT !.pc = "retrieve"]
    /\ UNCHANGED <<overlapVars, cacheVars, roundTripVars, fetchVars, extractVars, locatorVars>>

\* main.py lines 173-174: the two get_etf_holdings calls, one after the other
RetrieveForOverlap(outcome) ==
    /\ api.request.endpoint = "overlap"
    /\ api.pc = "retrieve"
    /\ LET ticker == IF api.calls = << >> THEN api.ticker1 ELSE api.ticker2
       IN  /\ outcome \in GetEtfHoldingsOutcomes(ticker)
           /\ api' = [api EXCEPT
                        !.calls = Append(@, ticker),
                        !.got = Append(@, outcome),
                        !.pc = IF outcome.kind = "raise" THEN "done"
                               ELSE IF api.calls = << >> THEN "retrieve" ELSE "respond",
                        !.status = IF outcome.kind = "raise" THEN 500 ELSE 0]
    /\ UNCHANGED <<overlapVars, cacheVars, roundTripVars, fetchVars, extractVars, locatorVars>>

\* main.py lines 176-210: 503 when either snapshot is None, else the overlap
RespondOverlap ==
    /\ api.request.endpoint = "overlap"
    /\ api.pc = "respond"
    /\ IF api.got[1] = CacheMiss \/ api.got[2] = CacheMiss THEN Respond(503, NoBody)
       ELSE Respond(200, calculate_overlap(api.got[1].value, api.got[2].value))
    /\ UNCHANGED <<overlapVars, cacheVars, roundTripVars, fetchVars, extractVars, locatorVars>>

NextApi ==
    \/ ValidateHoldings
    \/ \E t \in DOMAIN ETF_INFO : \E outcome \in GetEtfHoldingsOutcomes(t) :
           RetrieveHoldings(outcome)
    \/ RespondHoldings
    \/ ValidateOverlap
    \/ \E t \in DOMAIN ETF_INFO : \E outcome \in GetEtfHoldingsOutcomes(t) :
           RetrieveForOverlap(outcome)
    \/ RespondOverlap

SpecApi == InitApi /\ [][NextApi]_vars

\* C14: a holdings request for an unregistered ticker is answered 404, never
\* 503, and without a retrieval; a holdings request for a registered ticker
\* whose retrieval returns nothing is answered 503, never 404.
TheoremC14 ==
    (api.request.endpoint = "holdings" /\ api.pc = "done") =>
        /\ Upper(api.request.ticker1) \notin DOMAIN ETF_INFO =>
              api.status = 404 /\ api.calls = << >>
        /\ Upper(api.request.ticker1) \in DOMAIN ETF_INFO =>
              /\ api.status # 404
              /\ api.calls = <<Upper(api.request.ticker1)>>
              /\ api.got = <<CacheMiss>> <=> api.status = 503

\* a registered ticker in lower case whose retrieval failed
WitnessC14 ==
    /\ api.request.endpoint = "holdings"
    /\ api.pc = "done"
    /\ api.request.ticker1 = "spy"
    /\ api.got = <<CacheMiss>>
    /\ api.status = 503

\* C15: an overlap request for twice the same registered fund, whatever the
\* case of the letters, is answered 400, and one with an unregistered ticker
\* is answered 404, both before any call of get_etf_holdings.
TheoremC15 ==
    api.request.endpoint = "overlap" =>
        LET ticker1 == Upper(api.request.ticker1)
            ticker2 == Upper(api.request.ticker2)
            unknown == ticker1 \notin DOMAIN ETF_INFO \/ ticker2 \notin DOMAIN ETF_INFO
        IN  /\ api.status \in {400, 404} => api.calls = << >>
            /\ (unknown \/ ticker1 = ticker2) => api.calls = << >>
            /\ (api.pc = "done" /\ unknown) => api.status = 404
            /\ (api.pc = "done" /\ ~unknown /\ ticker1 = ticker2) => api.status = 400
            /\ api.pc # "validate" => (unknown \/ ticker1 = ticker2 <=> api.pc = "done" /\ api.calls = << >>)

\* the same fund written in two cases, rejected
WitnessC15 ==
    /\ api.request.endpoint = "overlap"
    /\ api.request.ticker1 = "SPY"
    /\ api.request.ticker2 = "spy"
    /\ api.pc = "done"
    /\ api.status = 400
    /\ api.calls = << >>

(***************************************************************************)
(* sec_parser.py: _parse_nport_xml applied to documents with malformed,    *)
(* missing and non-positive fields                                         *)
(***************************************************************************)
\* the elements the documents are built from: three valid ones; a weight
\* that is no number; a value that is no number; a zero, a negative, a
\* missing and a NaN weight
ExtractRecords ==
    { InvstOrSec(Txt("Apple Inc"), Txt("037833100"), Num(8), Num(1000)),
      InvstOrSec(Txt("Tesla Inc"), Txt("88160R101"), Num(3), NoElem),
      InvstOrSec(Txt(" Microsoft Corp "), EmptyText, Num(8), EmptyText),
      InvstOrSec(Txt("BadWeight"), Txt("594918104"), Garbage, Num(5)),
      InvstOrSec(Txt("BadValue"), NoElem, Num(3), Garbage),
      InvstOrSec(NoElem, Txt("ZERO"), Num(0), Num(5)),
      InvstOrSec(Txt("Short"), Txt("NEG"), Num(-1), NoElem),
      InvstOrSec(Txt("NoWeight"), Txt("NONE"), NoElem, Num(5)),
      InvstOrSec(Txt("NanWeight"), Txt("NAN"), NanText, NoElem) }

NotExtracted == [kind |-> "pending"]

InitExtract ==
    /\ document \in SeqsUpTo(ExtractRecords, MaxRecords)
    /\ extracted = NotExtracted
    /\ OverlapIdle /\ CacheIdle /\ RoundTripIdle /\ FetchIdle /\ ApiIdle /\ LocatorIdle

\* line 390: holdings = _parse_nport_xml(xml_content, ...)
ParseDocument ==
    /\ extracted = NotExtracted
    /\ extracted' = Extraction(document)
    /\ UNCHANGED document
    /\ UNCHANGED <<overlapVars, cacheVars, roundTripVars, fetchVars, apiVars, locatorVars>>

NextExtract == ParseDocument

SpecExtract == InitExtract /\ [][NextExtract]_vars

\* a numeric field of the element holds text that is no number
MalformedRecord(inv) == inv.pctVal.x = "garbage" \/ inv.valUSD.x = "garbage"

\* the element has a weight and the weight is above zero
PositiveWeight(inv) == inv.pctVal.x = "num" /\ inv.pctVal.n > 0

\* the holding a valid element with a positive weight stands for
HoldingOf(inv) ==
    [name |-> IF inv.name.x = "str" THEN Strip(inv.name.s) ELSE "Unknown",
     cusip |-> IF inv.cusip.x = "str" THEN Strip(inv.cusip.s) ELSE None,
     percentage |-> inv.pctVal.n,
     value |-> IF inv.valUSD.x = "num" THEN inv.valUSD.n ELSE NoValue]

\* the elements of the document that are to be returned
Returned(doc) ==
    {i \in 1..Len(doc) : ~MalformedRecord(doc[i]) /\ PositiveWeight(doc[i])}

\* C16: extraction does not raise on a document with malformed numeric
\* fields: a malformed element is skipped, every other element with a weight
\* above zero is returned, and no element with a weight of zero or less, or
\* without a weight, is returned.
TheoremC16 ==
    extracted # NotExtracted =>
        /\ extracted.kind = "value"
        /\ Len(extracted.holdings) = Cardinality(Returned(document))
        /\ \A k \in 1..Len(extracted.holdings) : extracted.holdings[k].percentage > 0
        /\ \A i \in Returned(document) :
               Cardinality({k \in 1..Len(extracted.holdings) :
                               extracted.holdings[k] = HoldingOf(document[i])})
                 = Cardinality({j \in Returned(document) :
                                   HoldingOf(document[j]) = HoldingOf(document[i])})

\* one malformed element between two valid ones, both of them returned
WitnessC16 ==
    /\ extracted # NotExtracted
    /\ Len(document) = 3
    /\ MalformedRecord(document[2])
    /\ Returned(document) = {1, 3}
    /\ Len(extracted.holdings) = 2
    /\ extracted.holdings[1] = HoldingOf(document[3])
    /\ extracted.holdings[2] = HoldingOf(document[1])

(***************************************************************************)
(* sec_parser.py: _get_latest_nport_url                                    *)
(***************************************************************************)
\* the form types of the recent filings, newest first
Forms == {"NPORT-P", "NPORT-P/A", "10-K"}

\* the accession number of the i-th entry
Accession(i) == "0001-24-00000" \o ToString(i)

\* a request that fails (aiohttp.ClientError, or a response that is no JSON)
FetchFailed == [ok |-> FALSE]

\* what the index of a filing may be: unavailable, or a list of file names
Indexes ==
    { FetchFailed,
      [ok |-> TRUE, item |-> << >>],
      [ok |-> TRUE, item |-> <<"filing.htm", "nport.htm">>],
      [ok |-> TRUE, item |-> <<"primary_doc.xml">>],
      [ok |-> TRUE, item |-> <<"primary_doc.xml", "NPORT_1.xml">>] }

\* what EDGAR may serve: the submissions of the fund, unavailable or with
\* their form and accessionNumber lists, and the index of each filing
Feeds ==
    { [submissions |-> FetchFailed, index |-> [i \in {} |-> FetchFailed]] }
    \cup UNION { { [submissions |-> [ok |-> TRUE, form |-> forms,
                                     accessionNumber |-> [i \in 1..n |-> Accession(i)]],
                    index |-> index] :
                     index \in [{Accession(i) : i \in 1..Len(forms)} -> Indexes],
                     n \in {k \in {Len(forms) - 1, Len(forms)} : k >= 0} } :
                 forms \in SeqsUpTo(Forms, MaxFilings) }

\* name.endswith(".xml")
EndsWithXml(name) == name \in {"primary_doc.xml", "NPORT_1.xml"}

\* "nport" in name.lower()
ContainsNport(name) == name \in {"NPORT_1.xml", "nport.htm"}

\* lines 212, 220: the URL of a file of a filing
FilingUrl(accession, name) == [accession |-> accession, name |-> name]

NotLocated == [kind |-> "pending"]
NoUrl == [kind |-> "none"]
Url(u) == [kind |-> "url", url |-> u]

IsNportXml(name) == EndsWithXml(name) /\ ContainsNport(name)

\* the first place of a non-empty set of places in a list
First(S) == CHOOSE k \in S : \A l \in S : k <= l

\* lines 206-222: the file of a filing: the first .xml name containing
\* "nport", else the first .xml name, else nothing
PickDocument(item) ==
    LET nport == {k \in 1..Len(item) : IsNportXml(item[k])}
        xml == {k \in 1..Len(item) : EndsWithXml(item[k])}
    IN  IF nport # {} THEN <<item[First(nport)]>>
        ELSE IF xml # {} THEN <<item[First(xml)]>>
        ELSE << >>

\* lines 197-225: the loop over the recent filings from entry i on; it goes
\* on to the next entry when no file was found for a matching one; any
\* exception (an index that cannot be fetched, a missing accession number)
\* gives None (lines 231-233)
RECURSIVE ScanFilings(_, _)
ScanFilings(f, i) ==
    IF i > Len(f.submissions.form) THEN NoUrl
    ELSE IF f.submissions.form[i] \notin {"NPORT-P", "NPORT-P/A"} THEN ScanFilings(f, i + 1)
    ELSE IF i > Len(f.submissions.accessionNumber) THEN NoUrl
    ELSE LET accession == f.submissions.accessionNumber[i]
         IN  IF ~f.index[accession].ok THEN NoUrl
             ELSE LET doc == PickDocument(f.index[accession].item)
                  IN  IF doc # << >> THEN Url(FilingUrl(accession, doc[1]))
                      ELSE ScanFilings(f, i + 1)

\* lines 179-233
get_latest_nport_url(f) ==
    IF ~f.submissions.ok THEN NoUrl ELSE ScanFilings(f, 1)

InitLocator ==
    /\ feed \in Feeds
    /\ located = NotLocated
    /\ OverlapIdle /\ CacheIdle /\ RoundTripIdle /\ FetchIdle /\ ApiIdle /\ ExtractIdle

\* line 377: filing_url = await _get_latest_nport_url(session, etf_info["cik"])
LocateFiling ==
    /\ located = NotLocated
    /\ located' = get_latest_nport_url(feed)
    /\ UNCHANGED feed
    /\ UNCHANGED <<overlapVars, cacheVars, roundTripVars, fetchVars, apiVars, extractVars>>

NextLocator == LocateFiling

SpecLocator == InitLocator /\ [][NextLocator]_vars

\* the entries of the recent filings with the disclosure form or its amendment
Matching(f) ==
    IF ~f.submissions.ok THEN {}
    ELSE {i \in 1..Len(f.submissions.form) : f.submissions.form[i] \in {"NPORT-P", "NPORT-P/A"}}

\* C18: the URL returned is built from the first entry of the recent filings
\* whose form is NPORT-P or NPORT-P/A; when no file is found for that entry
\* the result is None, not a URL of a later entry.
ClaimC18 ==
    (located # NotLocated /\ located # NoUrl) =>
        /\ Matching(feed) # {}
        /\ located.url.accession
             = Accession(First(Matching(feed)))

====
